---- MODULE Spec2Model ----
(***************************************************************************)
(* Poseidon2 over the Mersenne-31 field: the permutation (poseidon2.rs),   *)
(* the sponge and the chained hash (sponge.rs).                            *)
(*                                                                         *)
(* Arrays are tuples; At(a, i) reads the element the source calls a[i]     *)
(* (0-based).  Field elements are the integers 0..P-1.                     *)
(***************************************************************************)
EXTENDS Integers, Sequences, FiniteSets, TLC

VARIABLES
  input,        \* the elements the caller is going to hash (sponge driver)
  absorbed,     \* the elements handed to absorb / absorb_many so far, in order
  calls,        \* which of absorb / absorb_many the caller has used so far
  state,        \* Poseidon2Sponge.state
  buffer,       \* Poseidon2Sponge.buffer
  n_perm,       \* number of poseidon2_permutation calls made by the sponge
  status,       \* "active", or the finalize variant that consumed the sponge
  out,          \* what that finalize variant returned
  pre,          \* the sponge as it was when the finalize variant was called
  messages,     \* the argument of hash_messages
  outputs,      \* what hash_messages returned
  chain_pc,     \* "idle": no call; "ready": before the call; "returned": after it
  perm_in,      \* poseidon2_permutation: the state it was called with
  perm_state,   \* poseidon2_permutation: the state being transformed
  perm_before,  \* the state before the latest step of the permutation
  perm_pc,      \* the next step of the permutation
  perm_trace    \* the steps of the permutation executed so far

vars == <<input, absorbed, calls, state, buffer, n_perm, status, out, pre,
          messages, outputs, chain_pc,
          perm_in, perm_state, perm_before, perm_pc, perm_trace>>

sponge_vars == <<input, absorbed, calls, state, buffer, n_perm, status, out, pre>>
chain_vars == <<messages, outputs, chain_pc>>
perm_vars == <<perm_in, perm_state, perm_before, perm_pc, perm_trace>>

----------------------------------------------------------------------------
(* Program constants *)

N_STATE == 16
RATE == 8
CAPACITY == 8
N_PARTIAL_ROUNDS == 14
N_HALF_FULL_ROUNDS == 4
FULL_ROUNDS == 2 * N_HALF_FULL_ROUNDS
ROUND_CONST == 1234

EXTERNAL_ROUND_CONSTS ==
  [round \in 0..(FULL_ROUNDS - 1) |-> [i \in 0..(N_STATE - 1) |-> ROUND_CONST]]

INTERNAL_ROUND_CONSTS == [round \in 0..(N_PARTIAL_ROUNDS - 1) |-> ROUND_CONST]

----------------------------------------------------------------------------
(* Evaluation.  The model checker evaluates an operator's arguments and a  *)
(* LET definition by name, again at every use.  Bind(e, F) evaluates e     *)
(* once and applies F to its value: it is "let v = e; F(v)".               *)

Bind(e, F(_)) == CHOOSE r \in {F(v) : v \in {e}} : TRUE

At(a, i) == a[i + 1]

Arr4(f(_)) == <<f(0), f(1), f(2), f(3)>>

Arr8(f(_)) == <<f(0), f(1), f(2), f(3), f(4), f(5), f(6), f(7)>>

Arr16(f(_)) ==
  <<f(0), f(1), f(2), f(3), f(4), f(5), f(6), f(7),
    f(8), f(9), f(10), f(11), f(12), f(13), f(14), f(15)>>

----------------------------------------------------------------------------
(* BaseField: the integers modulo P = 2^31 - 1.  Every intermediate value  *)
(* stays within 32 signed bits, the width of the model checker's integers: *)
(* a sum is taken as (a - P) + b, a product limb by limb, folded with      *)
(* 2^31 = 1 (mod P).                                                       *)

P == 2147483647

M31Add(a, b) == ((a - P) + b) % P

\* (m * k) mod P for m < 2^31, where k is a power of two and w = 2^31 / k
MulPow2(m, k, w) == (((m % w) * k) + (m \div w)) % P

M31Mul(a, b) ==
  LET a1 == a \div 65536
      a0 == a % 65536
      b1 == b \div 65536
      b0 == b % 65536
      a0h == a0 \div 256
      a0l == a0 % 256
      hi == (2 * a1 * b1) % P
      mid == M31Add(MulPow2(a1 * b0, 65536, 32768), MulPow2(a0 * b1, 65536, 32768))
      lo == M31Add(MulPow2(a0h * b0, 256, 8388608), (a0l * b0) % P)
  IN M31Add(M31Add(hi, mid), lo)

----------------------------------------------------------------------------
(* poseidon2.rs *)

\* the cube in place of the fifth power
pow3(x) == Bind(M31Mul(x, x), LAMBDA x2 : M31Mul(x2, x))

pow5(x) ==
  Bind(M31Mul(x, x), LAMBDA x2 :
    Bind(M31Mul(x2, x2), LAMBDA x4 : M31Mul(x4, x)))

\* apply_m4 that returns its last four temporaries in the order computed
apply_m4_in_order(x) ==
  LET t0 == M31Add(At(x, 0), At(x, 1))
      t02 == M31Add(t0, t0)
      t1 == M31Add(At(x, 2), At(x, 3))
      t12 == M31Add(t1, t1)
      t2 == M31Add(M31Add(At(x, 1), At(x, 1)), t1)
      t3 == M31Add(M31Add(At(x, 3), At(x, 3)), t0)
      t4 == M31Add(M31Add(t12, t12), t3)
      t5 == M31Add(M31Add(t02, t02), t2)
      t6 == M31Add(t3, t5)
      t7 == M31Add(t2, t4)
  IN <<t4, t5, t6, t7>>

apply_m4(x) ==
  LET t0 == M31Add(At(x, 0), At(x, 1))
      t02 == M31Add(t0, t0)
      t1 == M31Add(At(x, 2), At(x, 3))
      t12 == M31Add(t1, t1)
      t2 == M31Add(M31Add(At(x, 1), At(x, 1)), t1)
      t3 == M31Add(M31Add(At(x, 3), At(x, 3)), t0)
      t4 == M31Add(M31Add(t12, t12), t3)
      t5 == M31Add(M31Add(t02, t02), t2)
      t6 == M31Add(t3, t5)
      t7 == M31Add(t2, t4)
  IN <<t6, t5, t7, t4>>

\* first loop: every group of four replaced by its image under M4
m4_groups(s) ==
  LET group(i) == apply_m4(<<At(s, 4 * i), At(s, 4 * i + 1), At(s, 4 * i + 2), At(s, 4 * i + 3)>>)
  IN group(0) \o group(1) \o group(2) \o group(3)

\* second loop: column j reads positions j, j+4, j+8, j+12, which no earlier
\* column has written, and adds their sum to each of them
column_mixing(s) ==
  LET colsum(j) == M31Add(M31Add(M31Add(At(s, j), At(s, j + 4)), At(s, j + 8)), At(s, j + 12))
  IN Bind(Arr4(colsum), LAMBDA sums :
       LET upd(k) == M31Add(At(s, k), At(sums, k % 4))
       IN Arr16(upd))

apply_external_round_matrix(s) ==
  Bind(m4_groups(s), LAMBDA mixed : column_mixing(mixed))

RECURSIVE fold_sum(_, _, _)
fold_sum(s, i, acc) ==
  IF i >= N_STATE THEN acc ELSE fold_sum(s, i + 1, M31Add(acc, At(s, i)))

apply_internal_round_matrix(s) ==
  Bind(fold_sum(s, 1, At(s, 0)), LAMBDA sum :
    LET upd(i) == M31Add(M31Mul(At(s, i), 2 ^ (i + 1)), sum)
    IN Arr16(upd))

\* for i in 0..N_STATE { state[i] += EXTERNAL_ROUND_CONSTS[round][i] }
add_external_consts(s, round) ==
  LET upd(i) == M31Add(At(s, i), EXTERNAL_ROUND_CONSTS[round][i])
  IN Arr16(upd)

\* *state = from_fn(|i| pow5(state[i]))
sbox_all(s) ==
  LET upd(i) == pow5(At(s, i))
  IN Arr16(upd)

\* state[0] += INTERNAL_ROUND_CONSTS[round]
add_internal_const(s, round) ==
  [s EXCEPT ![1] = M31Add(@, INTERNAL_ROUND_CONSTS[round])]

\* state[0] = pow5(state[0])
sbox_first(s) == [s EXCEPT ![1] = pow5(@)]

full_round(s, round) ==
  Bind(add_external_consts(s, round), LAMBDA added :
    Bind(apply_external_round_matrix(added), LAMBDA mixed : sbox_all(mixed)))

partial_round(s, round) ==
  Bind(add_internal_const(s, round), LAMBDA added :
    Bind(apply_internal_round_matrix(added), LAMBDA mixed : sbox_first(mixed)))

\* for round in 0..N_HALF_FULL_ROUNDS, with EXTERNAL_ROUND_CONSTS[round + offset]
RECURSIVE full_rounds(_, _, _)
full_rounds(s, round, offset) ==
  IF round >= N_HALF_FULL_ROUNDS THEN s
  ELSE Bind(full_round(s, round + offset), LAMBDA next :
         full_rounds(next, round + 1, offset))

\* for round in 0..N_PARTIAL_ROUNDS
RECURSIVE partial_rounds(_, _)
partial_rounds(s, round) ==
  IF round >= N_PARTIAL_ROUNDS THEN s
  ELSE Bind(partial_round(s, round), LAMBDA next :
         partial_rounds(next, round + 1))

poseidon2_permutation(s) ==
  Bind(full_rounds(s, 0, 0), LAMBDA first :
    Bind(partial_rounds(first, 0), LAMBDA middle :
      full_rounds(middle, 0, N_HALF_FULL_ROUNDS)))

----------------------------------------------------------------------------
(* poseidon2_permutation statement by statement.  pc names the loop        *)
(* (phase), its round and the statement of the loop body to run next.      *)

PcStart == [phase |-> "first_full", round |-> 0, step |-> "add"]
PcDone == [phase |-> "done", round |-> 0, step |-> "add"]
PcIdle == [phase |-> "idle", round |-> 0, step |-> "add"]

\* the partial-round loop written for round in 1..N_PARTIAL_ROUNDS
next_pc_one_round_short(pc) ==
  IF pc.step = "add" THEN [pc EXCEPT !.step = "matrix"]
  ELSE IF pc.step = "matrix" THEN [pc EXCEPT !.step = "sbox"]
  ELSE IF pc.phase = "first_full"
       THEN IF pc.round + 1 < N_HALF_FULL_ROUNDS
            THEN [pc EXCEPT !.round = @ + 1, !.step = "add"]
            ELSE [phase |-> "partial", round |-> 1, step |-> "add"]
  ELSE IF pc.phase = "partial"
       THEN IF pc.round + 1 < N_PARTIAL_ROUNDS
            THEN [pc EXCEPT !.round = @ + 1, !.step = "add"]
            ELSE [phase |-> "last_full", round |-> 0, step |-> "add"]
  ELSE IF pc.round + 1 < N_HALF_FULL_ROUNDS
       THEN [pc EXCEPT !.round = @ + 1, !.step = "add"]
       ELSE PcDone

\* after a statement: the next statement of the body, the next round of the
\* loop, or the next loop
next_pc(pc) ==
  IF pc.step = "add" THEN [pc EXCEPT !.step = "matrix"]
  ELSE IF pc.step = "matrix" THEN [pc EXCEPT !.step = "sbox"]
  ELSE IF pc.phase = "first_full"
       THEN IF pc.round + 1 < N_HALF_FULL_ROUNDS
            THEN [pc EXCEPT !.round = @ + 1, !.step = "add"]
            ELSE [phase |-> "partial", round |-> 0, step |-> "add"]
  ELSE IF pc.phase = "partial"
       THEN IF pc.round + 1 < N_PARTIAL_ROUNDS
            THEN [pc EXCEPT !.round = @ + 1, !.step = "add"]
            ELSE [phase |-> "last_full", round |-> 0, step |-> "add"]
  ELSE IF pc.round + 1 < N_HALF_FULL_ROUNDS
       THEN [pc EXCEPT !.round = @ + 1, !.step = "add"]
       ELSE PcDone

\* the index into EXTERNAL_ROUND_CONSTS: round, or round + N_HALF_FULL_ROUNDS
external_const_index(pc) ==
  IF pc.phase = "first_full" THEN pc.round ELSE pc.round + N_HALF_FULL_ROUNDS

----------------------------------------------------------------------------
(* sponge.rs: Poseidon2Sponge.  A sponge is a record of its two fields and  *)
(* of n_perm, which counts the calls of poseidon2_permutation it has made. *)

ZeroState == LET z(i) == 0 IN Arr16(z)

new == [state |-> ZeroState, buffer |-> <<>>, n_perm |-> 0]

\* the block written over the rate segment: self.state[i] = self.buffer[i]
add_buffer_overwrites(self) ==
  LET upd(i) == IF i < RATE THEN At(self.buffer, i) ELSE At(self.state, i)
  IN Arr16(upd)

\* for i in 0..RATE { self.state[i] += self.buffer[i] }
add_buffer(self) ==
  LET upd(i) == IF i < RATE THEN M31Add(At(self.state, i), At(self.buffer, i))
                ELSE At(self.state, i)
  IN Arr16(upd)

\* process_block without self.buffer.clear()
process_block_keeps_buffer(self) ==
  Bind(add_buffer(self), LAMBDA added :
    [state |-> poseidon2_permutation(added),
     buffer |-> self.buffer,
     n_perm |-> self.n_perm + 1])

process_block(self) ==
  Bind(add_buffer(self), LAMBDA added :
    [state |-> poseidon2_permutation(added),
     buffer |-> <<>>,
     n_perm |-> self.n_perm + 1])

absorb(self, element) ==
  Bind([self EXCEPT !.buffer = Append(@, element)], LAMBDA pushed :
    IF Len(pushed.buffer) = RATE THEN process_block(pushed) ELSE pushed)

\* absorb_many that extends the buffer by the whole slice and looks at its
\* length once
absorb_many_batched(self, elements) ==
  Bind([self EXCEPT !.buffer = @ \o elements], LAMBDA pushed :
    IF Len(pushed.buffer) >= RATE THEN process_block(pushed) ELSE pushed)

\* for &element in elements, from the i-th on
RECURSIVE absorb_from(_, _, _)
absorb_from(self, elements, i) ==
  IF i > Len(elements) THEN self
  ELSE Bind(absorb(self, elements[i]), LAMBDA next :
         absorb_from(next, elements, i + 1))

absorb_many(self, elements) == absorb_from(self, elements, 1)

\* padding that pushes ones
RECURSIVE pad_with_ones(_)
pad_with_ones(self) ==
  IF Len(self.buffer) < RATE
  THEN Bind([self EXCEPT !.buffer = Append(@, 1)], LAMBDA pushed : pad_with_ones(pushed))
  ELSE self

\* while self.buffer.len() < RATE { self.buffer.push(0) }
RECURSIVE pad(_)
pad(self) ==
  IF Len(self.buffer) < RATE
  THEN Bind([self EXCEPT !.buffer = Append(@, 0)], LAMBDA pushed : pad(pushed))
  ELSE self

\* finalize that pads and processes a block whatever the buffer holds
finalize_always_pads(self) ==
  Bind(Bind(pad(self), LAMBDA padded : process_block(padded)),
       LAMBDA done : [self |-> done, ret |-> At(done.state, 0)])

\* finalize_full_rate that reads state[1..=8]
finalize_full_rate_shifted(self) ==
  Bind(IF self.buffer # <<>> THEN Bind(pad(self), LAMBDA padded : process_block(padded))
       ELSE self,
       LAMBDA done : LET view(i) == At(done.state, i + 1)
                     IN [self |-> done, ret |-> Arr8(view)])

\* Each finalize variant gives what it returns (ret) and the sponge it
\* consumed as the call left it (self).
finalize(self) ==
  Bind(IF self.buffer # <<>> THEN Bind(pad(self), LAMBDA padded : process_block(padded))
       ELSE self,
       LAMBDA done : [self |-> done, ret |-> At(done.state, 0)])

finalize_full_rate(self) ==
  Bind(IF self.buffer # <<>> THEN Bind(pad(self), LAMBDA padded : process_block(padded))
       ELSE self,
       LAMBDA done : LET view(i) == At(done.state, i)
                     IN [self |-> done, ret |-> Arr8(view)])

finalize_full_state(self) ==
  Bind(IF self.buffer # <<>> THEN Bind(pad(self), LAMBDA padded : process_block(padded))
       ELSE self,
       LAMBDA done : [self |-> done, ret |-> done.state])

hash(elements) ==
  Bind(absorb_many(new, elements), LAMBDA sponge : finalize(sponge).ret)

----------------------------------------------------------------------------
(* sponge.rs: hash_messages.  prev_output is <<>> for None, <<s>> for       *)
(* Some(s).                                                                *)

\* the state of a message whatever came before: rate = message, capacity = 0
message_state_unchained(prev_output, message) ==
  LET upd(i) == IF i < RATE THEN At(message, i) ELSE 0
  IN Arr16(upd)

\* let mut state = if let Some(prev) = prev_output { .. } else { .. }
message_state(prev_output, message) ==
  IF prev_output # <<>>
  THEN LET prev == prev_output[1]
           upd(i) == IF i < RATE THEN M31Add(At(prev, i), At(message, i))
                     ELSE At(prev, i)
       IN Arr16(upd)
  ELSE LET upd(i) == IF i < RATE THEN At(message, i) ELSE 0
       IN Arr16(upd)

\* for message in messages, from the i-th on
RECURSIVE hash_messages_from(_, _, _, _)
hash_messages_from(msgs, i, prev_output, outs) ==
  IF i > Len(msgs) THEN outs
  ELSE Bind(message_state(prev_output, msgs[i]), LAMBDA initial :
         Bind(poseidon2_permutation(initial), LAMBDA permuted :
           Bind(Append(outs, permuted), LAMBDA pushed :
             hash_messages_from(msgs, i + 1, <<permuted>>, pushed))))

hash_messages(msgs) == hash_messages_from(msgs, 1, <<>>, <<>>)

----------------------------------------------------------------------------
(* Bounds of the model *)

MaxLen == 9         \* longest input handed to the sponge
MaxChunk == 9       \* longest slice handed to one absorb_many call

(* Inputs: prefixes of two streams, one of small elements (1, 2, 3, ...)   *)
(* and one of elements just below the modulus (P-1, P-2, ...).             *)
TapeSmall == [i \in 1..MaxLen |-> i]
TapeLarge == [i \in 1..MaxLen |-> P - i]
Inputs == {SubSeq(t, 1, L) : t \in {TapeSmall, TapeLarge}, L \in 0..MaxLen}

----------------------------------------------------------------------------
(* The sponge and its caller.  The caller creates a sponge, hands it the   *)
(* elements of input in order, by absorb or by absorb_many in slices of    *)
(* any length, may go on with explicit zero elements up to the end of the  *)
(* block, and ends with one of the three finalize variants.                *)

Sponge == [state |-> state, buffer |-> buffer, n_perm |-> n_perm]

SetSponge(sp) ==
  /\ state' = sp.state
  /\ buffer' = sp.buffer
  /\ n_perm' = sp.n_perm

ChainIdle ==
  /\ messages = <<>>
  /\ outputs = <<>>
  /\ chain_pc = "idle"

PermIdle ==
  /\ perm_in = <<>>
  /\ perm_state = <<>>
  /\ perm_before = <<>>
  /\ perm_pc = PcIdle
  /\ perm_trace = <<>>

SpongeNew ==
  /\ absorbed = <<>>
  /\ calls = {}
  /\ state = new.state
  /\ buffer = new.buffer
  /\ n_perm = new.n_perm
  /\ status = "active"
  /\ out = <<>>
  /\ pre = <<>>

Init ==
  /\ input \in Inputs
  /\ SpongeNew
  /\ ChainIdle
  /\ PermIdle

Absorb ==
  /\ status = "active"
  /\ Len(absorbed) < Len(input)
  /\ \E element \in {input[Len(absorbed) + 1]} :
       /\ \E sp \in {absorb(Sponge, element)} : SetSponge(sp)
       /\ absorbed' = Append(absorbed, element)
  /\ calls' = calls \cup {"absorb"}
  /\ UNCHANGED <<input, status, out, pre, chain_vars, perm_vars>>

AbsorbMany ==
  /\ status = "active"
  /\ \E k \in 0..MaxChunk :
       /\ Len(absorbed) + k <= Len(input)
       /\ \E elements \in {SubSeq(input, Len(absorbed) + 1, Len(absorbed) + k)} :
            /\ \E sp \in {absorb_many(Sponge, elements)} : SetSponge(sp)
            /\ absorbed' = absorbed \o elements
  /\ calls' = calls \cup {"absorb_many"}
  /\ UNCHANGED <<input, status, out, pre, chain_vars, perm_vars>>

\* the caller pads by hand: absorb(0) until the block is complete
AbsorbZero ==
  /\ status = "active"
  /\ Len(absorbed) >= Len(input)
  /\ Len(absorbed) % RATE # 0
  /\ \E sp \in {absorb(Sponge, 0)} : SetSponge(sp)
  /\ absorbed' = Append(absorbed, 0)
  /\ calls' = calls \cup {"absorb"}
  /\ UNCHANGED <<input, status, out, pre, chain_vars, perm_vars>>

Consume(variant, r) ==
  /\ status' = variant
  /\ out' = r.ret
  /\ pre' = Sponge
  /\ SetSponge(r.self)
  /\ UNCHANGED <<input, absorbed, calls, chain_vars, perm_vars>>

Finalize ==
  /\ status = "active"
  /\ \E r \in {finalize(Sponge)} : Consume("finalize", r)

FinalizeFullRate ==
  /\ status = "active"
  /\ \E r \in {finalize_full_rate(Sponge)} : Consume("finalize_full_rate", r)

FinalizeFullState ==
  /\ status = "active"
  /\ \E r \in {finalize_full_state(Sponge)} : Consume("finalize_full_state", r)

Next ==
  \/ Absorb
  \/ AbsorbMany
  \/ AbsorbZero
  \/ Finalize
  \/ FinalizeFullRate
  \/ FinalizeFullState

Spec == Init /\ [][Next]_vars

----------------------------------------------------------------------------
(* hash_messages and the sponge side by side (specification SpecChain).    *)
(* The caller holds a list of messages, calls hash_messages on it, and     *)
(* feeds the same messages, element by element, to a fresh sponge, which   *)
(* it may finalize with finalize_full_state.                               *)

MaxMsgs == 2        \* longest list of messages

\* main.rs: from_fn(|i| i)
KnownMessage == <<0, 1, 2, 3, 4, 5, 6, 7>>
LargeMessage == <<P - 1, P - 2, P - 3, P - 4, P - 5, P - 6, P - 7, P - 8>>
Msgs == {KnownMessage, LargeMessage}
MessageLists == UNION {[1..n -> Msgs] : n \in 0..MaxMsgs}

RECURSIVE Flatten(_)
Flatten(msgs) == IF msgs = <<>> THEN <<>> ELSE Head(msgs) \o Flatten(Tail(msgs))

InitChain ==
  /\ messages \in MessageLists
  /\ outputs = <<>>
  /\ chain_pc = "ready"
  /\ input = Flatten(messages)
  /\ SpongeNew
  /\ PermIdle

HashMessages ==
  /\ chain_pc = "ready"
  /\ outputs' = hash_messages(messages)
  /\ chain_pc' = "returned"
  /\ UNCHANGED <<messages, sponge_vars, perm_vars>>

NextChain ==
  \/ HashMessages
  \/ Absorb
  \/ FinalizeFullState

SpecChain == InitChain /\ [][NextChain]_vars

----------------------------------------------------------------------------
(* One call of poseidon2_permutation, a statement at a time (specification *)
(* SpecPerm).  perm_trace records the statements run: op names the         *)
(* statement, const the index of the round constant it adds (-1: none).    *)

\* poseidon2.rs, test_permutation: from_fn(|i| i)
TestState == <<0, 1, 2, 3, 4, 5, 6, 7, 8, 9, 10, 11, 12, 13, 14, 15>>
KnownState == KnownMessage \o <<0, 0, 0, 0, 0, 0, 0, 0>>
LargeState == LET v(i) == P - 1 - i IN Arr16(v)
PermInputs == {ZeroState, KnownState, TestState, LargeState}

InFullRounds == perm_pc.phase \in {"first_full", "last_full"}

InitPerm ==
  /\ perm_in \in PermInputs
  /\ perm_state = perm_in
  /\ perm_before = perm_in
  /\ perm_pc = PcStart
  /\ perm_trace = <<>>
  /\ input = <<>>
  /\ SpongeNew
  /\ ChainIdle

PermStep(op, const, after) ==
  /\ perm_state' = after
  /\ perm_before' = perm_state
  /\ perm_pc' = next_pc(perm_pc)
  /\ perm_trace' = Append(perm_trace, [op |-> op, const |-> const])
  /\ UNCHANGED <<perm_in, sponge_vars, chain_vars>>

AddExternalConsts ==
  /\ InFullRounds
  /\ perm_pc.step = "add"
  /\ PermStep("add_external_consts", external_const_index(perm_pc),
              add_external_consts(perm_state, external_const_index(perm_pc)))

ApplyExternalMatrix ==
  /\ InFullRounds
  /\ perm_pc.step = "matrix"
  /\ PermStep("apply_external_round_matrix", -1, apply_external_round_matrix(perm_state))

SboxAll ==
  /\ InFullRounds
  /\ perm_pc.step = "sbox"
  /\ PermStep("sbox_all", -1, sbox_all(perm_state))

AddInternalConst ==
  /\ perm_pc.phase = "partial"
  /\ perm_pc.step = "add"
  /\ PermStep("add_internal_const", perm_pc.round, add_internal_const(perm_state, perm_pc.round))

ApplyInternalMatrix ==
  /\ perm_pc.phase = "partial"
  /\ perm_pc.step = "matrix"
  /\ PermStep("apply_internal_round_matrix", -1, apply_internal_round_matrix(perm_state))

SboxFirst ==
  /\ perm_pc.phase = "partial"
  /\ perm_pc.step = "sbox"
  /\ PermStep("sbox_first", -1, sbox_first(perm_state))

NextPerm ==
  \/ AddExternalConsts
  \/ ApplyExternalMatrix
  \/ SboxAll
  \/ AddInternalConst
  \/ ApplyInternalMatrix
  \/ SboxFirst

SpecPerm == InitPerm /\ [][NextPerm]_vars

----------------------------------------------------------------------------
(* Properties of the sponge (specification Spec) *)

Finalized == status # "active"

\* the number of explicit zeros that complete the block of an input of length n
PadLen(n) == RATE - (n % RATE)

Zeros(k) == [i \in 1..k |-> 0]

\* one absorb call per element of xs, from the i-th on
RECURSIVE absorb_each(_, _, _)
absorb_each(sp, xs, i) ==
  IF i > Len(xs) THEN sp
  ELSE Bind(absorb(sp, xs[i]), LAMBDA next : absorb_each(next, xs, i + 1))

\* C1: padding consistency.  For an input x whose length is not a multiple of
\* 8 (length 3 among them), hash(x) is what finalize returns on a sponge that
\* absorbed x and then 8 - (n mod 8) explicit zeros, and that finalize pads
\* nothing: it makes no further permutation.
C1_PaddingConsistency ==
  (/\ status = "finalize"
   /\ Len(input) % RATE # 0
   /\ absorbed = input \o Zeros(PadLen(Len(input))))
  => /\ out = hash(input)
     /\ n_perm = pre.n_perm
     /\ pre.buffer = <<>>

C1_Witness ==
  /\ status = "finalize"
  /\ input = <<1, 2, 3>>
  /\ absorbed = <<1, 2, 3, 0, 0, 0, 0, 0>>
  /\ out = hash(input)

\* C2: buffering equivalence.  Whatever mix of absorb and absorb_many calls
\* delivered the elements, the sponge has the state and the buffer of a sponge
\* that absorbed them one at a time, and finalize returns the same on both.
C2_BufferingEquivalence ==
  /\ status = "active" =>
       \E ref \in {absorb_each(new, absorbed, 1)} :
         /\ state = ref.state
         /\ buffer = ref.buffer
  /\ status = "finalize" =>
       \E ref \in {absorb_each(new, absorbed, 1)} :
         /\ pre.state = ref.state
         /\ pre.buffer = ref.buffer
         /\ out = finalize(ref).ret

C2_Witness ==
  /\ status = "finalize"
  /\ calls = {"absorb", "absorb_many"}
  /\ Len(absorbed) = RATE + 1
  /\ Len(pre.buffer) = 1

\* C4: finalize runs no extra permutation on an empty buffer.  After n
\* absorbed elements the permutation has run floor(n/8) times; finalize runs
\* it once more exactly when n mod 8 # 0; when n mod 8 = 0 the state is left
\* as it was and the view is read off it; with n = 0 no permutation runs and
\* finalize returns 0, element 0 of the initial state.
C4_NoExtraPermutation ==
  /\ status = "active" => n_perm = Len(absorbed) \div RATE
  /\ Finalized =>
       /\ pre.n_perm = Len(absorbed) \div RATE
       /\ n_perm = pre.n_perm + (IF Len(absorbed) % RATE # 0 THEN 1 ELSE 0)
       /\ n_perm = (Len(absorbed) + RATE - 1) \div RATE
  /\ (Finalized /\ Len(absorbed) % RATE = 0) =>
       /\ state = pre.state
       /\ status = "finalize" => out = At(pre.state, 0)
       /\ status = "finalize_full_rate" => out = SubSeq(pre.state, 1, RATE)
       /\ status = "finalize_full_state" => out = pre.state
  /\ (status = "finalize" /\ absorbed = <<>>) =>
       /\ n_perm = 0
       /\ out = 0

C4_Witness ==
  /\ status = "finalize"
  /\ Len(absorbed) = 2 * RATE
  /\ n_perm = 2
  /\ out = At(pre.state, 0)

\* C5: sponge buffer invariant.  Between calls the buffer holds fewer than 8
\* elements, as many as the number of absorbed elements mod 8: the absorb that
\* brings it to 8 processes the block and empties it in the same call.
C5_BufferInvariant ==
  /\ Len(buffer) \in 0..(RATE - 1)
  /\ status = "active" => Len(buffer) = Len(absorbed) % RATE

C5_Witness ==
  /\ status = "active"
  /\ Len(absorbed) = RATE
  /\ buffer = <<>>
  /\ n_perm = 1

\* C8: the three finalize variants differ only in the view they return.  On
\* the same sponge, finalize returns element 0 and finalize_full_rate returns
\* elements 0..7 of what finalize_full_state returns, and each leaves the
\* state that finalize_full_state leaves, after as many permutations.
C8_FinalizeViews ==
  /\ status = "finalize" =>
       \E full \in {finalize_full_state(pre)} :
         /\ out = At(full.ret, 0)
         /\ Sponge = full.self
  /\ status = "finalize_full_rate" =>
       \E full \in {finalize_full_state(pre)} :
         /\ out = SubSeq(full.ret, 1, RATE)
         /\ Sponge = full.self
  /\ status = "finalize_full_state" =>
       \E one \in {finalize(pre)} :
         /\ one.ret = At(out, 0)
         /\ Sponge = one.self

C8_Witness ==
  /\ status = "finalize_full_rate"
  /\ Len(pre.buffer) = 3
  /\ n_perm = pre.n_perm + 1
  /\ Len(out) = RATE

----------------------------------------------------------------------------
(* Properties of hash_messages (specification SpecChain) *)

\* the state the claim says is permuted for message k (1-based): for the
\* first message rate = message, capacity = 0; after that the rate is the
\* previous output's rate plus the message, the capacity the previous
\* output's capacity
ChainedInput(k) ==
  IF k = 1
  THEN messages[1] \o Zeros(CAPACITY)
  ELSE [i \in 1..RATE |-> M31Add(outputs[k - 1][i], messages[k][i])]
       \o SubSeq(outputs[k - 1], RATE + 1, N_STATE)

\* C3: chaining correctness.  hash_messages returns one output per message,
\* in order; output k is the permutation of ChainedInput(k); no messages, no
\* outputs.
C3_ChainingCorrectness ==
  chain_pc = "returned" =>
    /\ Len(outputs) = Len(messages)
    /\ \A k \in 1..Len(messages) :
         outputs[k] = poseidon2_permutation(ChainedInput(k))

C3_Witness ==
  /\ chain_pc = "returned"
  /\ messages = <<KnownMessage, LargeMessage>>
  /\ Len(outputs) = 2
  /\ SubSeq(outputs[2], RATE + 1, N_STATE) # SubSeq(outputs[1], RATE + 1, N_STATE)

\* C6: known vector.  hash_messages on the single message [0,..,7] gives an
\* output whose element 0 is 334078718.
C6_KnownVector ==
  (chain_pc = "returned" /\ messages = <<KnownMessage>>)
  => (Len(outputs) = 1 /\ At(outputs[1], 0) = 334078718)

C6_Witness ==
  /\ chain_pc = "returned"
  /\ messages = <<KnownMessage>>
  /\ At(outputs[1], 0) = 334078718

\* C10: on full blocks the chain coincides with the sponge.  Output k of
\* hash_messages is the state of a sponge that absorbed messages 0..k, which
\* is what finalize_full_state returns on it, with no padding.
C10_ChainIsSponge ==
  (chain_pc = "returned" /\ Len(absorbed) >= RATE /\ Len(absorbed) % RATE = 0)
  => /\ status = "active" =>
          /\ state = outputs[Len(absorbed) \div RATE]
          /\ finalize_full_state(Sponge).ret = outputs[Len(absorbed) \div RATE]
     /\ status = "finalize_full_state" =>
          /\ out = outputs[Len(absorbed) \div RATE]
          /\ n_perm = Len(absorbed) \div RATE

C10_Witness ==
  /\ chain_pc = "returned"
  /\ status = "finalize_full_state"
  /\ Len(messages) = 2
  /\ absorbed = Flatten(messages)
  /\ out = outputs[2]

----------------------------------------------------------------------------
(* Properties of the permutation (specification SpecPerm) *)

FullRoundSteps(c) ==
  <<[op |-> "add_external_consts", const |-> c],
    [op |-> "apply_external_round_matrix", const |-> -1],
    [op |-> "sbox_all", const |-> -1]>>

PartialRoundSteps(c) ==
  <<[op |-> "add_internal_const", const |-> c],
    [op |-> "apply_internal_round_matrix", const |-> -1],
    [op |-> "sbox_first", const |-> -1]>>

RECURSIVE Rounds(_, _, _)
Rounds(Steps(_), from, to) ==
  IF from > to THEN <<>> ELSE Steps(from) \o Rounds(Steps, from + 1, to)

\* 4 full rounds with constant vectors 0..3, 14 partial rounds with scalar
\* constants 0..13, 4 full rounds with constant vectors 4..7
ExpectedSchedule ==
  Rounds(FullRoundSteps, 0, 3) \o Rounds(PartialRoundSteps, 0, 13) \o Rounds(FullRoundSteps, 4, 7)

LastOp == IF perm_trace = <<>> THEN "none" ELSE perm_trace[Len(perm_trace)].op

LastConst == perm_trace[Len(perm_trace)].const

RestUnchanged == \A i \in 1..(N_STATE - 1) : At(perm_state, i) = At(perm_before, i)

\* C7: round schedule.  Whatever the input, the statements run are the
\* expected schedule, 22 rounds of 3 steps, and the call ends when it is
\* complete; a full round adds 16 constants, mixes, and raises all 16
\* elements to the fifth power; a partial round touches element 0 only when
\* it adds its constant and when it applies the fifth power.
C7_RoundSchedule ==
  /\ Len(perm_trace) <= Len(ExpectedSchedule)
  /\ perm_trace = SubSeq(ExpectedSchedule, 1, Len(perm_trace))
  /\ Len(ExpectedSchedule) = 3 * 22
  /\ (perm_pc = PcDone) <=> (perm_trace = ExpectedSchedule)
  /\ perm_pc = PcDone => perm_state = poseidon2_permutation(perm_in)
  /\ LastOp = "add_external_consts" =>
       \A i \in 0..(N_STATE - 1) :
         At(perm_state, i) = M31Add(At(perm_before, i), EXTERNAL_ROUND_CONSTS[LastConst][i])
  /\ LastOp = "sbox_all" =>
       \A i \in 0..(N_STATE - 1) : At(perm_state, i) = pow5(At(perm_before, i))
  /\ LastOp = "add_internal_const" =>
       /\ At(perm_state, 0) = M31Add(At(perm_before, 0), INTERNAL_ROUND_CONSTS[LastConst])
       /\ RestUnchanged
  /\ LastOp = "sbox_first" =>
       /\ At(perm_state, 0) = pow5(At(perm_before, 0))
       /\ RestUnchanged

C7_Witness ==
  /\ perm_pc = PcDone
  /\ perm_in = TestState
  /\ Len(perm_trace) = 66
  /\ perm_trace[13].op = "add_internal_const"
  /\ perm_trace[55] = [op |-> "add_external_consts", const |-> 4]

\* M4 as the specification wires it, with the doublings as products
SpecM4(x) ==
  LET t0 == M31Add(At(x, 0), At(x, 1))
      t1 == M31Add(At(x, 2), At(x, 3))
      t2 == M31Add(M31Mul(2, At(x, 1)), t1)
      t3 == M31Add(M31Mul(2, At(x, 3)), t0)
      t4 == M31Add(M31Mul(4, t1), t3)
      t5 == M31Add(M31Mul(4, t0), t2)
      t6 == M31Add(t3, t5)
      t7 == M31Add(t2, t4)
  IN <<t6, t5, t7, t4>>

Group(s, g) == SubSeq(s, 4 * g + 1, 4 * g + 4)

RECURSIVE FieldSum(_)
FieldSum(xs) == IF xs = <<>> THEN 0 ELSE M31Add(Head(xs), FieldSum(Tail(xs)))

\* circ(2*M4, M4, M4, M4): element j of block g is twice element j of M4 of
\* group g plus element j of M4 of each of the other three groups
CircM4(s) ==
  Bind([g \in 0..3 |-> SpecM4(Group(s, g))], LAMBDA m :
    LET entry(k) ==
          LET g == k \div 4
              j == k % 4
              others == [h \in 1..3 |-> At(m[(g + h) % 4], j)]
          IN M31Add(M31Mul(2, At(m[g], j)), FieldSum(others))
    IN Arr16(entry))

\* C9: the external mixing is circ(2*M4, M4, M4, M4) with the
\* specification's M4: every application of apply_external_round_matrix in
\* the permutation takes the state s to CircM4(s).
C9_ExternalMatrixIsCirculant ==
  LastOp = "apply_external_round_matrix" => perm_state = CircM4(perm_before)

C9_Witness ==
  /\ LastOp = "apply_external_round_matrix"
  /\ perm_pc.phase = "last_full"
  /\ perm_in = LargeState
  /\ perm_state = CircM4(perm_before)
  /\ perm_state # perm_before

====
